---- MODULE Spec2Model ----
(***************************************************************************)
(* A model of hexaviz.Mesh (src/hexaviz/__init__.py): the graph aggregate  *)
(* of components, domains, resources and connections, its mutation API     *)
(* and its as_dict() projection.  Every API call is one action.  Each      *)
(* method is an operator from the Mesh and the arguments to the outcome:   *)
(* the Mesh it leaves behind and the exception it raised (or "ok").        *)
(* `call` and `result` keep the last call that changed the Mesh.           *)
(***************************************************************************)
EXTENDS Integers, Sequences, FiniteSets, TLC

(* ---------------- bounds of the model ---------------- *)

\* most stored connections
MaxConnections == 2
\* most ports (needs_ports and provides_ports together) handed to one add_component
MaxArgLen == 2
\* most ports (needs + provides, all nodes together) the Mesh may hold
MaxPorts == 3
\* most highlight flags (nodes, connections, resources) that may be on
MaxHighlights == 1

\* What one caller passes to the Mesh: the names it gives to add_component
\* (components), the names it uses for domains in add_domain and
\* add_component_to_domain (domains), its port and resource names, and
\* whether it uses the highlight_* calls.  Every other argument that names a
\* node is drawn from components \cup domains.  hashing is how the process's
\* string hashes lay out a set of two names: in slots apart from each other
\* ("apart"), or in one home slot, the name added second being moved to a
\* slot behind ("behind") or ahead of ("ahead") the first.
Vocabularies ==
    { [components |-> {"A"}, domains |-> {"D"}, ports |-> {"p", "q"},
       resources |-> {}, highlights |-> FALSE, hashing |-> "apart"],
      [components |-> {"A", "B"}, domains |-> {}, ports |-> {"p"},
       resources |-> {"R"}, highlights |-> TRUE, hashing |-> "apart"],
      [components |-> {"A", "B"}, domains |-> {"D"}, ports |-> {"p"},
       resources |-> {}, highlights |-> FALSE, hashing |-> "apart"],
      [components |-> {"A", "D"}, domains |-> {"A", "D"}, ports |-> {"p"},
       resources |-> {"A"}, highlights |-> FALSE, hashing |-> "apart"],
      [components |-> {"D__needs", "D__provides"}, domains |-> {"D"}, ports |-> {"p"},
       resources |-> {}, highlights |-> FALSE, hashing |-> "apart"],
      [components |-> {"A"}, domains |-> {"", "D"}, ports |-> {"p"},
       resources |-> {}, highlights |-> FALSE, hashing |-> "apart"],
      [components |-> {"A", "B"}, domains |-> {"D"}, ports |-> {},
       resources |-> {}, highlights |-> FALSE, hashing |-> "behind"],
      [components |-> {"A", "B"}, domains |-> {"D"}, ports |-> {},
       resources |-> {}, highlights |-> FALSE, hashing |-> "ahead"],
      [components |-> {"A"}, domains |-> {"D"}, ports |-> {"p"},
       resources |-> {}, highlights |-> TRUE, hashing |-> "apart"] }

PortLists(ports) == UNION {[1..k -> ports] : k \in 0..MaxArgLen}

(* ---------------- state ---------------- *)

VARIABLES
    components,          \* Mesh.components: OrderedDict name -> node, as the sequence of its values
    connections,         \* Mesh.connections: OrderedDict (consumer, producer) -> connection
    resources,           \* Mesh.resources: list of resource names
    highlighted_resource,\* Mesh._highlighted_resource: set of resource names
    connected_consumers, \* Mesh.connected_consumers: set of (label, port)
    call,                \* the API call that changed the Mesh last
    result,              \* "ok" or the name of the exception that call raised
    added,               \* history: per (node, role) the ports whose add_*_port returned normally, in call order
    vocab,               \* the vocabulary of the caller
    tokens,              \* render_mesh_as_dot: the digests of the port names and the anchor tokens written last
    snapshot             \* the dict the caller holds from its last as_dict() call

vars == <<components, connections, resources, highlighted_resource,
          connected_consumers, call, result, added, vocab, tokens, snapshot>>

\* the Mesh object as one value
Mesh == [components |-> components,
         connections |-> connections,
         resources |-> resources,
         highlighted_resource |-> highlighted_resource,
         connected_consumers |-> connected_consumers]

(* ---------------- Python helpers ---------------- *)

\* x in <list>
In(x, list) == \E i \in 1..Len(list) : list[i] = x

\* an operation's outcome: the Mesh it leaves behind, the exception it raised,
\* and the ComponentNode.add_*_port calls that returned normally on the way
Raise(m, e) == [m |-> m, exc |-> e, adds |-> <<>>]

Return(m) == [m |-> m, exc |-> "ok", adds |-> <<>>]

\* name in self.components
Has(m, name) == \E i \in 1..Len(m.components) : m.components[i].name = name

Idx(m, name) == CHOOSE i \in 1..Len(m.components) : m.components[i].name = name

\* self.components[name]
Get(m, name) == m.components[Idx(m, name)]

\* self.components[node.name] = node  (a new key goes to the end of the OrderedDict)
SetNode(m, node) ==
    IF Has(m, node.name)
    THEN [m EXCEPT !.components[Idx(m, node.name)] = node]
    ELSE [m EXCEPT !.components = Append(@, node)]

(* ---------------- ComponentNode / DomainNode ---------------- *)

\* parent: <<>> is None, <<d>> is the string d.  A DomainNode has no parent
\* attribute and a ComponentNode no children attribute.  children: the set,
\* as the sequence of its members in the order the set iterates them.
ComponentNode(name) ==
    [name |-> name, kind |-> "component", needs_ports |-> <<>>,
     provides_ports |-> <<>>, highlighted |-> FALSE, parent |-> <<>>,
     children |-> <<>>]

\* DomainNode.__init__ does not call ComponentNode.__init__: no highlighted
\* attribute until highlight_component assigns one (nothing reads it), no parent
DomainNode(name) ==
    [name |-> name, kind |-> "domain", needs_ports |-> <<>>,
     provides_ports |-> <<>>, highlighted |-> FALSE, parent |-> <<>>,
     children |-> <<>>]

isDomain(node) == node.kind = "domain"

\* mutant: the new port goes to the front of the list
ComponentNode_add_needs_port_prepend(node, port_name) ==
    IF In(port_name, node.needs_ports)
    THEN [node |-> node, exc |-> "DuplicateEntry"]
    ELSE [node |-> [node EXCEPT !.needs_ports = <<port_name>> \o @], exc |-> "ok"]

ComponentNode_add_needs_port(node, port_name) ==
    IF In(port_name, node.needs_ports)
    THEN [node |-> node, exc |-> "DuplicateEntry"]
    ELSE [node |-> [node EXCEPT !.needs_ports = Append(@, port_name)], exc |-> "ok"]

\* mutant: the duplicate test looks at the needs ports
ComponentNode_add_provides_port_wrong_list(node, port_name) ==
    IF In(port_name, node.needs_ports)
    THEN [node |-> node, exc |-> "DuplicateEntry"]
    ELSE [node |-> [node EXCEPT !.provides_ports = Append(@, port_name)], exc |-> "ok"]

ComponentNode_add_provides_port(node, port_name) ==
    IF In(port_name, node.provides_ports)
    THEN [node |-> node, exc |-> "DuplicateEntry"]
    ELSE [node |-> [node EXCEPT !.provides_ports = Append(@, port_name)], exc |-> "ok"]

\* mutant: a Domain's consumer-side label is its provides label
label_for_needs_as_provides(node) ==
    IF isDomain(node) THEN node.name \o "__provides" ELSE node.name

label_for_needs(node) ==
    IF isDomain(node) THEN node.name \o "__needs" ELSE node.name

label_for_provides(node) ==
    IF isDomain(node) THEN node.name \o "__provides" ELSE node.name

\* mutant: the assertion passes for any port name
assert_is_valid_needs_port_any(node, port_name) ==
    TRUE

\* TRUE when the assertion passes, FALSE when it raises InvalidPort
assert_is_valid_needs_port(node, port_name) ==
    In(port_name, node.needs_ports)

assert_is_valid_provides_port(node, port_name) == In(port_name, node.provides_ports)

\* `if component.parent:` -- None and the empty string are both false
Truthy(parent) == parent # <<>> /\ parent[1] # ""

\* the slots of names that hash apart, in the order of iteration
SlotOrder == <<"", "A", "B", "D", "D__needs", "D__provides">>

SlotOf(x) == CHOOSE i \in 1..Len(SlotOrder) : SlotOrder[i] = x

\* set.add(x) on a set that iterates as `table`: a set iterates in the order
\* of its slots, a name keeps the slot it got, and a name whose home slot is
\* taken is moved to another slot
set_add(table, x) ==
    IF In(x, table) THEN table
    ELSE IF vocab.hashing = "behind" THEN Append(table, x)
    ELSE IF vocab.hashing = "ahead" THEN <<x>> \o table
    ELSE LET Before(y) == SlotOf(y) < SlotOf(x)
             After(y) == SlotOf(y) > SlotOf(x)
         IN  SelectSeq(table, Before) \o <<x>> \o SelectSeq(table, After)

add_child_component(node, component_name) ==
    IF In(component_name, node.children)
    THEN [node |-> node, exc |-> "DuplicateEntry"]
    ELSE [node |-> [node EXCEPT !.children = set_add(@, component_name)], exc |-> "ok"]

(* ---------------- Mesh: nodes, ports, resources ---------------- *)

add_needs_port(m, component_name, port_name) ==
    IF ~Has(m, component_name) THEN Raise(m, "KeyError")
    ELSE LET r == ComponentNode_add_needs_port(Get(m, component_name), port_name)
         IN  IF r.exc # "ok" THEN Raise(m, r.exc)
             ELSE [m |-> SetNode(m, r.node), exc |-> "ok",
                   adds |-> << <<component_name, "needs", port_name>> >>]

add_provides_port(m, component_name, port_name) ==
    IF ~Has(m, component_name) THEN Raise(m, "KeyError")
    ELSE LET r == ComponentNode_add_provides_port(Get(m, component_name), port_name)
         IN  IF r.exc # "ok" THEN Raise(m, r.exc)
             ELSE [m |-> SetNode(m, r.node), exc |-> "ok",
                   adds |-> << <<component_name, "provides", port_name>> >>]

\* `for port_name in needs: self.add_needs_port(component_name, port_name)`,
\* continued from outcome r
RECURSIVE AddNeedsLoop(_, _, _)
AddNeedsLoop(r, component_name, needs) ==
    IF r.exc # "ok" \/ needs = <<>> THEN r
    ELSE LET s == add_needs_port(r.m, component_name, Head(needs))
         IN  AddNeedsLoop([m |-> s.m, exc |-> s.exc, adds |-> r.adds \o s.adds],
                          component_name, Tail(needs))

RECURSIVE AddProvidesLoop(_, _, _)
AddProvidesLoop(r, component_name, provides) ==
    IF r.exc # "ok" \/ provides = <<>> THEN r
    ELSE LET s == add_provides_port(r.m, component_name, Head(provides))
         IN  AddProvidesLoop([m |-> s.m, exc |-> s.exc, adds |-> r.adds \o s.adds],
                             component_name, Tail(provides))

add_component(m, component_name, needs_ports, provides_ports) ==
    IF Has(m, component_name) THEN Raise(m, "DuplicateEntry")
    ELSE AddProvidesLoop(
             AddNeedsLoop(Return(SetNode(m, ComponentNode(component_name))),
                          component_name, needs_ports),
             component_name, provides_ports)

\* mutant: no test for a name that is in use
add_domain_overwrite(m, domain_name) ==
    Return(SetNode(m, DomainNode(domain_name)))

add_domain(m, domain_name) ==
    IF Has(m, domain_name) THEN Raise(m, "DuplicateEntry")
    ELSE Return(SetNode(m, DomainNode(domain_name)))

\* mutant: resources share the name space of the nodes
add_resource_shared_names(m, resource_name) ==
    IF In(resource_name, m.resources) \/ Has(m, resource_name)
    THEN Raise(m, "DuplicateEntry")
    ELSE Return([m EXCEPT !.resources = Append(@, resource_name)])

add_resource(m, resource_name) ==
    IF In(resource_name, m.resources) THEN Raise(m, "DuplicateEntry")
    ELSE Return([m EXCEPT !.resources = Append(@, resource_name)])

(* ---------------- Mesh: connections ---------------- *)

\* A connection: consumer is (label, port); producer is (label, port), or
\* <<resource>> for a ResourceConnectionNode (a Python str, never equal to a tuple).
ConnectionNode(consumer, producer, cls) ==
    [consumer |-> consumer, producer |-> producer, cls |-> cls, highlighted |-> FALSE]

HasKey(m, consumer, producer) ==
    \E i \in 1..Len(m.connections) :
        m.connections[i].consumer = consumer /\ m.connections[i].producer = producer

KeyIdx(m, consumer, producer) ==
    CHOOSE i \in 1..Len(m.connections) :
        m.connections[i].consumer = consumer /\ m.connections[i].producer = producer

\* self.connections[consumer, producer] = connectionClass(consumer, producer)
\* mutant: a new connection is stored in front of the others
SetConnection_front(m, conn) ==
    IF HasKey(m, conn.consumer, conn.producer)
    THEN [m EXCEPT !.connections[KeyIdx(m, conn.consumer, conn.producer)] = conn]
    ELSE [m EXCEPT !.connections = <<conn>> \o @]

SetConnection(m, conn) ==
    IF HasKey(m, conn.consumer, conn.producer)
    THEN [m EXCEPT !.connections[KeyIdx(m, conn.consumer, conn.producer)] = conn]
    ELSE [m EXCEPT !.connections = Append(@, conn)]

\* mutant: no test for a consumer that is connected already
add_connection_between_consumer_and_producer_unguarded(m, consumer, producer, connectionClass) ==
    LET m1 == SetConnection(m, ConnectionNode(consumer, producer, connectionClass))
    IN  Return([m1 EXCEPT !.connected_consumers = @ \cup {consumer}])

\* mutant: the consumer is not marked as connected
add_connection_between_consumer_and_producer_unmarked(m, consumer, producer, connectionClass) ==
    IF consumer \in m.connected_consumers THEN Raise(m, "InvalidConnection")
    ELSE Return(SetConnection(m, ConnectionNode(consumer, producer, connectionClass)))

\* mutant: a producer takes one connection only
add_connection_between_consumer_and_producer_exclusive(m, consumer, producer, connectionClass) ==
    IF consumer \in m.connected_consumers THEN Raise(m, "InvalidConnection")
    ELSE IF \E i \in 1..Len(m.connections) : m.connections[i].producer = producer
         THEN Raise(m, "InvalidConnection")
    ELSE LET m1 == SetConnection(m, ConnectionNode(consumer, producer, connectionClass))
         IN  Return([m1 EXCEPT !.connected_consumers = @ \cup {consumer}])

\* mutant: a new connection takes the place of the consumer's earlier one
add_connection_between_consumer_and_producer_replacing(m, consumer, producer, connectionClass) ==
    LET Others(conn) == conn.consumer # consumer
        m0 == [m EXCEPT !.connections = SelectSeq(@, Others)]
        m1 == SetConnection(m0, ConnectionNode(consumer, producer, connectionClass))
    IN  Return([m1 EXCEPT !.connected_consumers = @ \cup {consumer}])

add_connection_between_consumer_and_producer(m, consumer, producer, connectionClass) ==
    IF consumer \in m.connected_consumers THEN Raise(m, "InvalidConnection")
    ELSE LET m1 == SetConnection(m, ConnectionNode(consumer, producer, connectionClass))
         IN  Return([m1 EXCEPT !.connected_consumers = @ \cup {consumer}])

\* mutant: the test for a consumer that is connected already comes before the
\* producer is looked at
add_connection_connected_first(m, consumer_component, consumer_port, producer_component, producer_port) ==
    IF ~Has(m, consumer_component) THEN Raise(m, "InvalidComponent")
    ELSE IF ~assert_is_valid_needs_port(Get(m, consumer_component), consumer_port)
         THEN Raise(m, "InvalidPort")
    ELSE IF <<label_for_needs(Get(m, consumer_component)), consumer_port>>
                \in m.connected_consumers
         THEN Raise(m, "InvalidConnection")
    ELSE IF ~Has(m, producer_component) THEN Raise(m, "InvalidComponent")
    ELSE IF ~assert_is_valid_provides_port(Get(m, producer_component), producer_port)
         THEN Raise(m, "InvalidPort")
    ELSE add_connection_between_consumer_and_producer(m,
             <<label_for_needs(Get(m, consumer_component)), consumer_port>>,
             <<label_for_provides(Get(m, producer_component)), producer_port>>,
             "ConnectionNode")

\* mutant: the producer's port is validated as a needs port
add_connection_wrong_role(m, consumer_component, consumer_port, producer_component, producer_port) ==
    IF ~Has(m, consumer_component) THEN Raise(m, "InvalidComponent")
    ELSE IF ~assert_is_valid_needs_port(Get(m, consumer_component), consumer_port)
         THEN Raise(m, "InvalidPort")
    ELSE IF ~Has(m, producer_component) THEN Raise(m, "InvalidComponent")
    ELSE IF ~assert_is_valid_needs_port(Get(m, producer_component), producer_port)
         THEN Raise(m, "InvalidPort")
    ELSE add_connection_between_consumer_and_producer(m,
             <<label_for_needs(Get(m, consumer_component)), consumer_port>>,
             <<label_for_provides(Get(m, producer_component)), producer_port>>,
             "ConnectionNode")

add_connection(m, consumer_component, consumer_port, producer_component, producer_port) ==
    IF ~Has(m, consumer_component) THEN Raise(m, "InvalidComponent")
    ELSE IF ~assert_is_valid_needs_port(Get(m, consumer_component), consumer_port)
         THEN Raise(m, "InvalidPort")
    ELSE IF ~Has(m, producer_component) THEN Raise(m, "InvalidComponent")
    ELSE IF ~assert_is_valid_provides_port(Get(m, producer_component), producer_port)
         THEN Raise(m, "InvalidPort")
    ELSE add_connection_between_consumer_and_producer(m,
             <<label_for_needs(Get(m, consumer_component)), consumer_port>>,
             <<label_for_provides(Get(m, producer_component)), producer_port>>,
             "ConnectionNode")

\* mutant: the resource is not looked up
add_connection_to_resource_unchecked(m, consumer_component, consumer_port, resource) ==
    IF ~Has(m, consumer_component) THEN Raise(m, "InvalidComponent")
    ELSE IF ~assert_is_valid_needs_port(Get(m, consumer_component), consumer_port)
         THEN Raise(m, "InvalidPort")
    ELSE add_connection_between_consumer_and_producer(m,
             <<label_for_needs(Get(m, consumer_component)), consumer_port>>,
             <<resource>>, "ResourceConnectionNode")

add_connection_to_resource(m, consumer_component, consumer_port, resource) ==
    IF ~Has(m, consumer_component) THEN Raise(m, "InvalidComponent")
    ELSE IF ~assert_is_valid_needs_port(Get(m, consumer_component), consumer_port)
         THEN Raise(m, "InvalidPort")
    ELSE IF ~In(resource, m.resources) THEN Raise(m, "InvalidResource")
    ELSE add_connection_between_consumer_and_producer(m,
             <<label_for_needs(Get(m, consumer_component)), consumer_port>>,
             <<resource>>, "ResourceConnectionNode")

(* ---------------- Mesh: domains ---------------- *)

add_component_to_domain(m, component_name, domain_name) ==
    IF ~Has(m, component_name) THEN Raise(m, "InvalidComponent")
    ELSE IF isDomain(Get(m, component_name)) THEN Raise(m, "InvalidComponent")
    ELSE IF Truthy(Get(m, component_name).parent) THEN Raise(m, "DuplicateEntry")
    ELSE IF ~Has(m, domain_name) THEN Raise(m, "InvalidDomain")
    ELSE \* component.parent = domain_name, then domain.add_child_component(...)
         LET m1 == SetNode(m, [Get(m, component_name) EXCEPT !.parent = <<domain_name>>])
             domain == Get(m1, domain_name)
         IN  IF ~isDomain(domain)
             THEN Raise(m1, "AttributeError")  \* a ComponentNode has no add_child_component
             ELSE LET r == add_child_component(domain, component_name)
                  IN  IF r.exc # "ok" THEN Raise(m1, r.exc)
                      ELSE Return(SetNode(m1, r.node))

\* mutant: a needs port the domain declares already is refused, as for provides
expose_component_needs_port_exclusive(m, component_name, port_name) ==
    IF ~Has(m, component_name) THEN Raise(m, "InvalidComponent")
    ELSE IF ~assert_is_valid_needs_port(Get(m, component_name), port_name)
         THEN Raise(m, "InvalidPort")
    ELSE IF isDomain(Get(m, component_name))
         THEN Raise(m, "AttributeError")
    ELSE IF Get(m, component_name).parent = <<>>
            \/ ~Has(m, Get(m, component_name).parent[1])
         THEN Raise(m, "InvalidDomain")
    ELSE LET domain == Get(m, Get(m, component_name).parent[1])
         IN  IF In(port_name, domain.needs_ports) THEN Raise(m, "DuplicateEntry")
             ELSE LET m1 == SetNode(m, ComponentNode_add_needs_port(domain, port_name).node)
                      r == add_connection_between_consumer_and_producer(m1,
                               <<component_name, port_name>>,
                               <<label_for_needs(domain), port_name>>,
                               "DomainNeedsConnectionNode")
                  IN  [m |-> r.m, exc |-> r.exc,
                       adds |-> << <<domain.name, "needs", port_name>> >>]

expose_component_needs_port(m, component_name, port_name) ==
    IF ~Has(m, component_name) THEN Raise(m, "InvalidComponent")
    ELSE IF ~assert_is_valid_needs_port(Get(m, component_name), port_name)
         THEN Raise(m, "InvalidPort")
    ELSE IF isDomain(Get(m, component_name))
         THEN Raise(m, "AttributeError")   \* a DomainNode has no parent attribute
    ELSE IF Get(m, component_name).parent = <<>>
            \/ ~Has(m, Get(m, component_name).parent[1])
         THEN Raise(m, "InvalidDomain")
    ELSE LET domain == Get(m, Get(m, component_name).parent[1])
             fresh == ~In(port_name, domain.needs_ports)
             m1 == IF fresh
                   THEN SetNode(m, ComponentNode_add_needs_port(domain, port_name).node)
                   ELSE m
             ev == IF fresh THEN << <<domain.name, "needs", port_name>> >> ELSE <<>>
             r == add_connection_between_consumer_and_producer(m1,
                      <<component_name, port_name>>,
                      <<label_for_needs(domain), port_name>>,
                      "DomainNeedsConnectionNode")
         IN  [m |-> r.m, exc |-> r.exc, adds |-> ev]

\* mutant: the port is added to the domain only when it is missing, as for needs
expose_component_provides_port_shared(m, component_name, port_name) ==
    IF ~Has(m, component_name) THEN Raise(m, "InvalidComponent")
    ELSE IF ~assert_is_valid_provides_port(Get(m, component_name), port_name)
         THEN Raise(m, "InvalidPort")
    ELSE IF isDomain(Get(m, component_name))
         THEN Raise(m, "AttributeError")
    ELSE IF Get(m, component_name).parent = <<>>
            \/ ~Has(m, Get(m, component_name).parent[1])
         THEN Raise(m, "InvalidDomain")
    ELSE LET domain == Get(m, Get(m, component_name).parent[1])
             fresh == ~In(port_name, domain.provides_ports)
             m1 == IF fresh
                   THEN SetNode(m, ComponentNode_add_provides_port(domain, port_name).node)
                   ELSE m
             ev == IF fresh THEN << <<domain.name, "provides", port_name>> >> ELSE <<>>
             r == add_connection_between_consumer_and_producer(m1,
                      <<label_for_provides(domain), port_name>>,
                      <<component_name, port_name>>,
                      "DomainProvidesConnectionNode")
         IN  [m |-> r.m, exc |-> r.exc, adds |-> ev]

expose_component_provides_port(m, component_name, port_name) ==
    IF ~Has(m, component_name) THEN Raise(m, "InvalidComponent")
    ELSE IF ~assert_is_valid_provides_port(Get(m, component_name), port_name)
         THEN Raise(m, "InvalidPort")
    ELSE IF isDomain(Get(m, component_name))
         THEN Raise(m, "AttributeError")   \* a DomainNode has no parent attribute
    ELSE IF Get(m, component_name).parent = <<>>
            \/ ~Has(m, Get(m, component_name).parent[1])
         THEN Raise(m, "InvalidDomain")
    ELSE LET domain == Get(m, Get(m, component_name).parent[1])
         IN  IF In(port_name, domain.provides_ports) THEN Raise(m, "DuplicateEntry")
             ELSE LET m1 == SetNode(m, ComponentNode_add_provides_port(domain, port_name).node)
                      r == add_connection_between_consumer_and_producer(m1,
                               <<label_for_provides(domain), port_name>>,
                               <<component_name, port_name>>,
                               "DomainProvidesConnectionNode")
                  IN  [m |-> r.m, exc |-> r.exc,
                       adds |-> << <<domain.name, "provides", port_name>> >>]

(* ---------------- Mesh: highlighting ---------------- *)

\* mutant: the flag is flipped
highlight_component_toggle(m, component_name) ==
    IF ~Has(m, component_name) THEN Raise(m, "InvalidComponent")
    ELSE Return(SetNode(m, [Get(m, component_name) EXCEPT !.highlighted = ~@]))

highlight_component(m, component_name) ==
    IF ~Has(m, component_name) THEN Raise(m, "InvalidComponent")
    ELSE Return(SetNode(m, [Get(m, component_name) EXCEPT !.highlighted = TRUE]))

highlight_connection(m, consumer_component, consumer_port, producer_component, producer_port) ==
    LET consumer == <<consumer_component, consumer_port>>
        producer == <<producer_component, producer_port>>
    IN  IF ~HasKey(m, consumer, producer) THEN Raise(m, "InvalidConnection")
        ELSE Return([m EXCEPT !.connections[KeyIdx(m, consumer, producer)].highlighted = TRUE])

highlight_connection_to_resource(m, consumer_component, consumer_port, resource) ==
    LET consumer == <<consumer_component, consumer_port>>
    IN  IF ~HasKey(m, consumer, <<resource>>) THEN Raise(m, "InvalidConnection")
        ELSE Return([m EXCEPT !.connections[KeyIdx(m, consumer, <<resource>>)].highlighted = TRUE])

\* mutant: the resource is not looked up
highlight_resource_unchecked(m, resource) ==
    Return([m EXCEPT !.highlighted_resource = @ \cup {resource}])

highlight_resource(m, resource) ==
    IF ~In(resource, m.resources) THEN Raise(m, "InvalidResource")
    ELSE Return([m EXCEPT !.highlighted_resource = @ \cup {resource}])

(* ---------------- projection ---------------- *)

\* a dict key that is present only when the flag is set
ComponentNode_as_dict(node) ==
    IF node.highlighted
    THEN [name |-> node.name, needs_ports |-> node.needs_ports,
          provides_ports |-> node.provides_ports, highlighted |-> TRUE]
    ELSE [name |-> node.name, needs_ports |-> node.needs_ports,
          provides_ports |-> node.provides_ports]

\* mutant: a highlighted Domain says so, as a Component does
DomainNode_as_dict_highlighted(node) ==
    IF node.highlighted
    THEN [name |-> node.name, needs_ports |-> node.needs_ports,
          provides_ports |-> node.provides_ports, children |-> node.children,
          label_for_needs |-> label_for_needs(node),
          label_for_provides |-> label_for_provides(node), highlighted |-> TRUE]
    ELSE [name |-> node.name, needs_ports |-> node.needs_ports,
          provides_ports |-> node.provides_ports, children |-> node.children,
          label_for_needs |-> label_for_needs(node),
          label_for_provides |-> label_for_provides(node)]

\* list(self.children) has the set's iteration order
DomainNode_as_dict(node) ==
    [name |-> node.name, needs_ports |-> node.needs_ports,
     provides_ports |-> node.provides_ports, children |-> node.children,
     label_for_needs |-> label_for_needs(node),
     label_for_provides |-> label_for_provides(node)]

ConnectionNode_as_dict(conn) ==
    LET base == [consumer_component |-> conn.consumer[1],
                 consumer_port |-> conn.consumer[2],
                 producer_component |-> conn.producer[1],
                 producer_port |-> conn.producer[2]]
        hl == IF conn.highlighted THEN [highlighted |-> TRUE] ELSE <<>>
        ex == IF conn.cls = "DomainNeedsConnectionNode" THEN [domain_export |-> "needs"]
              ELSE IF conn.cls = "DomainProvidesConnectionNode" THEN [domain_export |-> "provides"]
              ELSE <<>>
    IN  IF conn.cls = "ResourceConnectionNode"
        THEN [consumer_component |-> conn.consumer[1],
              consumer_port |-> conn.consumer[2],
              resource |-> conn.producer[1]] @@ hl
        ELSE base @@ hl @@ ex

\* mutant: the highlighted resources are never listed
as_dict_never_highlighted(m) ==
    LET NotDomain(c) == ~isDomain(c)
        comps == SelectSeq(m.components, NotDomain)
        doms == SelectSeq(m.components, isDomain)
    IN  [components |-> [i \in 1..Len(comps) |-> ComponentNode_as_dict(comps[i])],
         domains |-> [i \in 1..Len(doms) |-> DomainNode_as_dict(doms[i])],
         connections |-> [i \in 1..Len(m.connections) |->
                             ConnectionNode_as_dict(m.connections[i])],
         resources |-> m.resources]

\* mutant: the highlighted resources are listed also when there are none
as_dict_always_highlighted(m) ==
    LET NotDomain(c) == ~isDomain(c)
        comps == SelectSeq(m.components, NotDomain)
        doms == SelectSeq(m.components, isDomain)
    IN  [components |-> [i \in 1..Len(comps) |-> ComponentNode_as_dict(comps[i])],
         domains |-> [i \in 1..Len(doms) |-> DomainNode_as_dict(doms[i])],
         connections |-> [i \in 1..Len(m.connections) |->
                             ConnectionNode_as_dict(m.connections[i])],
         resources |-> m.resources,
         highlighted_resources |-> m.highlighted_resource]

\* mutant: the components list is not filtered, the domains are in it too
as_dict_unfiltered(m) ==
    LET doms == SelectSeq(m.components, isDomain)
    IN  [components |-> [i \in 1..Len(m.components) |->
                            ComponentNode_as_dict(m.components[i])],
         domains |-> [i \in 1..Len(doms) |-> DomainNode_as_dict(doms[i])],
         connections |-> [i \in 1..Len(m.connections) |->
                             ConnectionNode_as_dict(m.connections[i])],
         resources |-> m.resources]

as_dict(m) ==
    LET NotDomain(c) == ~isDomain(c)
        comps == SelectSeq(m.components, NotDomain)
        doms == SelectSeq(m.components, isDomain)
        d == [components |-> [i \in 1..Len(comps) |-> ComponentNode_as_dict(comps[i])],
              domains |-> [i \in 1..Len(doms) |-> DomainNode_as_dict(doms[i])],
              connections |-> [i \in 1..Len(m.connections) |->
                                  ConnectionNode_as_dict(m.connections[i])],
              resources |-> m.resources]
    IN  IF m.highlighted_resource # {}
        THEN d @@ [highlighted_resources |-> m.highlighted_resource]
        ELSE d

\* mutant: 'resources': self.resources, the list of the Mesh itself
as_dict_shared_lists_resources(m) ==
    {"resources"}

\* The lists of the dict as_dict() returns that are list objects of the Mesh
\* or of its nodes: none.  resources is a comprehension, needs_ports,
\* provides_ports and children are list(...) copies, the entries are new dicts.
as_dict_shared_lists(m) ==
    {}

\* a node's entry of a held dict as the caller reads it in Mesh m
EntryAsRead(entry, shared, m) ==
    [k \in DOMAIN entry |->
        IF k \in shared \cap {"needs_ports", "provides_ports"}
        THEN IF k = "needs_ports" THEN Get(m, entry.name).needs_ports
             ELSE Get(m, entry.name).provides_ports
        ELSE entry[k]]

\* The held dict as the caller reads it in Mesh m: a list that is an object of
\* the Mesh shows what the Mesh holds now, the rest is as it was returned.
AsRead(held, m) ==
    [k \in DOMAIN held.dict |->
        IF k = "resources" /\ k \in held.shared THEN m.resources
        ELSE IF k \in {"components", "domains"}
        THEN [i \in 1..Len(held.dict[k]) |-> EntryAsRead(held.dict[k][i], held.shared, m)]
        ELSE held.dict[k]]

(* ---------------- the caller: one action per API call ---------------- *)

RECURSIVE SumLens(_)
SumLens(nodes) ==
    IF nodes = <<>> THEN 0
    ELSE Len(Head(nodes).needs_ports) + Len(Head(nodes).provides_ports) + SumLens(Tail(nodes))

CountHighlights(m) ==
    Cardinality({i \in 1..Len(m.components) : m.components[i].highlighted})
    + Cardinality({i \in 1..Len(m.connections) : m.connections[i].highlighted})
    + Cardinality(m.highlighted_resource)

\* the Mesh stays inside the bounds of the model
Within(m) ==
    /\ Len(m.connections) <= MaxConnections
    /\ SumLens(m.components) <= MaxPorts
    /\ CountHighlights(m) <= MaxHighlights

Roles == {"needs", "provides"}

Names == vocab.components \cup vocab.domains

Ports == vocab.ports

ResourceNames == vocab.resources

\* the history after the add_*_port calls `adds` returned normally
Record(h, adds) ==
    [k \in DOMAIN h |->
        LET Mine(e) == e[1] = k[1] /\ e[2] = k[2]
            mine == SelectSeq(adds, Mine)
        IN  h[k] \o [i \in 1..Len(mine) |-> mine[i][3]]]

\* no as_dict() call yet.  taken: the caller holds a dict; dict: the dict as
\* as_dict() returned it; shared: the lists in it that are list objects of the
\* Mesh; stale: the Mesh was changed since the call
NoSnapshot == [taken |-> FALSE, dict |-> <<>>, shared |-> {}, stale |-> FALSE]

\* nothing rendered
NoTokens == [md5 |-> <<>>, needs |-> <<>>, provides |-> <<>>]

\* The call `op` is made and ends with outcome r.  `call` and `result` keep
\* the last call that changed the Mesh: a call that leaves the Mesh as it was
\* (whatever it returned or raised) leaves them too.
Step(op, r) ==
    /\ Within(r.m)
    /\ components' = r.m.components
    /\ connections' = r.m.connections
    /\ resources' = r.m.resources
    /\ highlighted_resource' = r.m.highlighted_resource
    /\ connected_consumers' = r.m.connected_consumers
    /\ call' = IF r.m = Mesh THEN call ELSE op
    /\ result' = IF r.m = Mesh THEN result ELSE r.exc
    /\ added' = Record(added, r.adds)
    /\ snapshot' = [snapshot EXCEPT !.stale = snapshot.taken /\ (@ \/ r.m # Mesh)]
    /\ UNCHANGED <<vocab, tokens>>

Init ==
    /\ components = <<>>
    /\ connections = <<>>
    /\ resources = <<>>
    /\ highlighted_resource = {}
    /\ connected_consumers = {}
    /\ call = "Mesh"
    /\ result = "ok"
    /\ vocab \in Vocabularies
    /\ added = [k \in (vocab.components \cup vocab.domains) \X Roles |-> <<>>]
    /\ tokens = NoTokens
    /\ snapshot = NoSnapshot

AddComponent ==
    \E n \in vocab.components, needs \in PortLists(Ports), provides \in PortLists(Ports) :
        /\ Len(needs) + Len(provides) <= MaxArgLen
        /\ Step("add_component", add_component(Mesh, n, needs, provides))

AddDomain ==
    \E n \in vocab.domains : Step("add_domain", add_domain(Mesh, n))

AddResource ==
    \E r \in ResourceNames : Step("add_resource", add_resource(Mesh, r))

AddNeedsPort ==
    \E n \in Names, x \in Ports : Step("add_needs_port", add_needs_port(Mesh, n, x))

AddProvidesPort ==
    \E n \in Names, x \in Ports : Step("add_provides_port", add_provides_port(Mesh, n, x))

AddConnection ==
    \E c \in Names, cp \in Ports, p \in Names, pp \in Ports :
        Step("add_connection", add_connection(Mesh, c, cp, p, pp))

AddConnectionToResource ==
    \E c \in Names, cp \in Ports, r \in ResourceNames :
        Step("add_connection_to_resource", add_connection_to_resource(Mesh, c, cp, r))

AddComponentToDomain ==
    \E c \in Names, d \in vocab.domains :
        Step("add_component_to_domain", add_component_to_domain(Mesh, c, d))

ExposeComponentNeedsPort ==
    \E c \in Names, x \in Ports :
        Step("expose_component_needs_port", expose_component_needs_port(Mesh, c, x))

ExposeComponentProvidesPort ==
    \E c \in Names, x \in Ports :
        Step("expose_component_provides_port", expose_component_provides_port(Mesh, c, x))

HighlightComponent ==
    /\ vocab.highlights
    /\ \E n \in Names : Step("highlight_component", highlight_component(Mesh, n))

HighlightConnection ==
    /\ vocab.highlights
    /\ \E c \in Names, cp \in Ports, p \in Names, pp \in Ports :
        Step("highlight_connection", highlight_connection(Mesh, c, cp, p, pp))

HighlightConnectionToResource ==
    /\ vocab.highlights
    /\ \E c \in Names, cp \in Ports, r \in ResourceNames :
        Step("highlight_connection_to_resource",
             highlight_connection_to_resource(Mesh, c, cp, r))

HighlightResource ==
    /\ vocab.highlights
    /\ \E r \in ResourceNames : Step("highlight_resource", highlight_resource(Mesh, r))

Next ==
    \/ AddComponent
    \/ AddDomain
    \/ AddResource
    \/ AddNeedsPort
    \/ AddProvidesPort
    \/ AddConnection
    \/ AddConnectionToResource
    \/ AddComponentToDomain
    \/ ExposeComponentNeedsPort
    \/ ExposeComponentProvidesPort
    \/ HighlightComponent
    \/ HighlightConnection
    \/ HighlightConnectionToResource
    \/ HighlightResource

Spec == Init /\ [][Next]_vars

(* ---------------- rendering: the anchor tokens of the ports ---------------- *)

\* digits of a digest in the model (hashlib.md5(s).hexdigest() has 32)
HexDigestLen == 7
\* digits kept by the filters: hexdigest()[:6]
AnchorDigits == 6
\* the hexadecimal digits the digests of the model are made of
HexDigits == {"0", "d"}
\* the port names handed to the filters
PortNames == {"p", "q"}
\* hexdigest(): a string, as the sequence of its characters
HexDigests == [1..HexDigestLen -> HexDigits]

\* the 'hash' filter: "id" + hashlib.md5(s).hexdigest()[:6]
hash(s) ==
    <<"i", "d">> \o SubSeq(tokens.md5[s], 1, AnchorDigits)

\* the 'hash_p' filter with the prefix of 'hash'
hash_p_untagged(s) ==
    <<"i", "d">> \o SubSeq(tokens.md5[s], 1, AnchorDigits)

\* the 'hash_p' filter: "idp" + hashlib.md5(s).hexdigest()[:6]
hash_p(s) ==
    <<"i", "d", "p">> \o SubSeq(tokens.md5[s], 1, AnchorDigits)

\* a rendering starts: md5 is some function from names to digests
RenderInit ==
    /\ components = <<>>
    /\ connections = <<>>
    /\ resources = <<>>
    /\ highlighted_resource = {}
    /\ connected_consumers = {}
    /\ call = "Mesh"
    /\ result = "ok"
    /\ vocab = CHOOSE v \in Vocabularies : v.highlights /\ v.domains = {}
    /\ added = [k \in (vocab.components \cup vocab.domains) \X Roles |-> <<>>]
    /\ tokens \in [md5 : [PortNames -> HexDigests], needs : {<<>>}, provides : {<<>>}]
    /\ snapshot = NoSnapshot

\* the template writes the anchor of a needs port: PORT="{{ port|hash }}"
RenderNeedsPort ==
    /\ \E port \in PortNames : tokens' = [tokens EXCEPT !.needs = hash(port)]
    /\ UNCHANGED <<components, connections, resources, highlighted_resource,
                   connected_consumers, call, result, added, vocab, snapshot>>

\* the template writes the anchor of a provides port: PORT="{{ port|hash_p }}"
RenderProvidesPort ==
    /\ \E port \in PortNames : tokens' = [tokens EXCEPT !.provides = hash_p(port)]
    /\ UNCHANGED <<components, connections, resources, highlighted_resource,
                   connected_consumers, call, result, added, vocab, snapshot>>

RenderNext ==
    \/ RenderNeedsPort
    \/ RenderProvidesPort

RenderSpec == RenderInit /\ [][RenderNext]_vars

(* ---------------- the caller keeps snapshots ---------------- *)

\* the callers whose snapshots are followed: one with resources and
\* highlights, one with a Domain and its child
QueryVocabularies ==
    {v \in Vocabularies : v.highlights}

QueryInit ==
    /\ Init
    /\ vocab \in QueryVocabularies

\* as_dict(): the caller holds the dict that is returned
AsDict ==
    /\ snapshot' = [taken |-> TRUE, dict |-> as_dict(Mesh),
                    shared |-> as_dict_shared_lists(Mesh), stale |-> FALSE]
    /\ UNCHANGED <<components, connections, resources, highlighted_resource,
                   connected_consumers, call, result, added, vocab, tokens>>

QueryNext ==
    \/ Next
    \/ AsDict

QuerySpec == QueryInit /\ [][QueryNext]_vars

(* ---------------- properties ---------------- *)

\* the node called n, and whether there is one
IsNode(n) == Has(Mesh, n)

Node(n) == Get(Mesh, n)

\* some stored connection has this consumer anchor
IsConsumer(anchor) == \E i \in 1..Len(connections) : connections[i].consumer = anchor

\* xs is ys followed by the one element x
Extends(xs, ys, x) == xs = Append(ys, x)

NoRepeats(list) == \A i, j \in 1..Len(list) : list[i] = list[j] => i = j

\* C1: in every reachable state a consumer anchor (label, port) is the
\* consumer of at most one stored connection, whatever the kinds of the
\* connections (plain, resource edge, domain export).
C1_OneConnectionPerConsumer ==
    \A i, j \in 1..Len(connections) :
        connections[i].consumer = connections[j].consumer => i = j

\* C1 witness: two connections are stored and a further connection from the
\* consumer of one of them is refused.
C1_Witness ==
    /\ Len(connections) = 2
    /\ \E c \in Names, cp \in Ports, p \in Names, pp \in Ports :
          add_connection(Mesh, c, cp, p, pp).exc = "InvalidConnection"

\* C2: when (node, needs port) is the consumer of a stored connection, however
\* that connection was made, add_connection and add_connection_to_resource
\* from that node and port with a valid producer or resource raise
\* InvalidConnection.
C2_SecondConnectionRefused ==
    \A c \in Names, cp \in Ports :
        (/\ IsNode(c)
         /\ assert_is_valid_needs_port(Node(c), cp)
         /\ IsConsumer(<<label_for_needs(Node(c)), cp>>))
        => /\ \A p \in Names, pp \in Ports :
                 (IsNode(p) /\ assert_is_valid_provides_port(Node(p), pp))
                 => add_connection(Mesh, c, cp, p, pp).exc = "InvalidConnection"
           /\ \A r \in ResourceNames :
                 In(r, resources)
                 => add_connection_to_resource(Mesh, c, cp, r).exc = "InvalidConnection"

\* C2 witness: the first connection is a domain export made by
\* expose_component_needs_port, and both a connection to a valid producer and
\* one to a known resource are refused for its consumer.
C2_Witness ==
    \E i \in 1..Len(connections), c \in Names :
        /\ connections[i].cls = "DomainNeedsConnectionNode"
        /\ connections[i].consumer[1] = c
        /\ \E r \in ResourceNames :
              add_connection_to_resource(Mesh, c, connections[i].consumer[2], r).exc
                  = "InvalidConnection"
        /\ \E p \in Names, pp \in Ports :
              add_connection(Mesh, c, connections[i].consumer[2], p, pp).exc
                  = "InvalidConnection"

\* C3 (as claimed): a call that raises leaves the Mesh as it was, so the last
\* call that changed the Mesh never is one that raised.
C3_ErrorLeavesMeshUnchanged == result = "ok"

\* C4: add_component and add_domain with the name of a node, and add_resource
\* with the name of a resource, raise DuplicateEntry and leave the Mesh as it was.
C4_ReusedNameIsDuplicateEntry ==
    /\ \A n \in Names :
          IsNode(n)
          => /\ add_domain(Mesh, n) = Raise(Mesh, "DuplicateEntry")
             /\ \A needs \in PortLists(Ports), provides \in PortLists(Ports) :
                   add_component(Mesh, n, needs, provides) = Raise(Mesh, "DuplicateEntry")
    /\ \A r \in ResourceNames :
          In(r, resources) => add_resource(Mesh, r) = Raise(Mesh, "DuplicateEntry")

\* C4 witness: the Mesh holds a component, a domain and a resource, and the
\* three calls are refused for their names.
C4_Witness ==
    /\ \E n \in Names :
          IsNode(n) /\ isDomain(Node(n)) /\ add_component(Mesh, n, <<>>, <<>>).exc = "DuplicateEntry"
    /\ \E n \in Names :
          IsNode(n) /\ ~isDomain(Node(n)) /\ add_domain(Mesh, n).exc = "DuplicateEntry"
    /\ \E r \in ResourceNames : add_resource(Mesh, r).exc = "DuplicateEntry"

\* C5: components and domains share one name space (no two nodes have the
\* same name, and the name of a node is refused by add_component and
\* add_domain alike), resources have their own: a node's name is accepted by
\* add_resource and a resource's name by add_component and add_domain.
C5_NameSpaces ==
    /\ \A i, j \in 1..Len(components) :
          components[i].name = components[j].name => i = j
    /\ \A n \in Names :
          IsNode(n) => /\ add_component(Mesh, n, <<>>, <<>>).exc = "DuplicateEntry"
                       /\ add_domain(Mesh, n).exc = "DuplicateEntry"
    /\ \A x \in Names \cap ResourceNames :
          /\ (IsNode(x) /\ ~In(x, resources))
             => LET r == add_resource(Mesh, x)
                IN  r.exc = "ok" /\ In(x, r.m.resources) /\ r.m.components = components
          /\ (~IsNode(x) /\ In(x, resources))
             => /\ add_component(Mesh, x, <<>>, <<>>).exc = "ok"
                /\ add_domain(Mesh, x).exc = "ok"

\* C5 witness: one name is the name of a node and of a resource.
C5_Witness == \E x \in Names \cap ResourceNames : IsNode(x) /\ In(x, resources)

\* C6 (as claimed): add_needs_port and add_provides_port on a name that is no
\* node of the Mesh raise InvalidComponent.
C6_UnknownNodeIsInvalidComponent ==
    \A n \in Names, x \in Ports :
        ~IsNode(n) => /\ add_needs_port(Mesh, n, x).exc = "InvalidComponent"
                      /\ add_provides_port(Mesh, n, x).exc = "InvalidComponent"

\* C7: no node has a repeated name in its needs ports or in its provides
\* ports; adding a port the node has in that role raises DuplicateEntry; a
\* name the node has in one role only is accepted in the other.
C7_PortNamesUniquePerRole ==
    \A n \in Names :
        IsNode(n)
        => /\ NoRepeats(Node(n).needs_ports)
           /\ NoRepeats(Node(n).provides_ports)
           /\ \A x \in Ports :
                 /\ In(x, Node(n).needs_ports)
                    => add_needs_port(Mesh, n, x).exc = "DuplicateEntry"
                 /\ In(x, Node(n).provides_ports)
                    => add_provides_port(Mesh, n, x).exc = "DuplicateEntry"
                 /\ (In(x, Node(n).needs_ports) /\ ~In(x, Node(n).provides_ports))
                    => add_provides_port(Mesh, n, x).exc = "ok"
                 /\ (In(x, Node(n).provides_ports) /\ ~In(x, Node(n).needs_ports))
                    => add_needs_port(Mesh, n, x).exc = "ok"

\* C7 witness: a node has the same name as a needs port and as a provides
\* port, and adding it once more is refused in both roles.
C7_Witness ==
    \E n \in Names, x \in Ports :
        /\ IsNode(n)
        /\ In(x, Node(n).needs_ports) /\ In(x, Node(n).provides_ports)
        /\ add_needs_port(Mesh, n, x).exc = "DuplicateEntry"
        /\ add_provides_port(Mesh, n, x).exc = "DuplicateEntry"

\* the snapshot's entry for the node called n
SnapshotNode(n) ==
    LET d == as_dict(Mesh)
        all == d.components \o d.domains
    IN  all[CHOOSE i \in 1..Len(all) : all[i].name = n]

\* C8: for every node the snapshot's needs_ports and provides_ports are the
\* ports whose addition to that node in that role succeeded, in the order of
\* the additions.
C8_SnapshotPortsInInsertionOrder ==
    \A n \in Names :
        IsNode(n)
        => /\ SnapshotNode(n).needs_ports = added[<<n, "needs">>]
           /\ SnapshotNode(n).provides_ports = added[<<n, "provides">>]

\* C8 witness: a component got q before p as needs ports, the later one by
\* add_needs_port, and the snapshot lists q, p.
C8_Witness ==
    /\ call = "add_needs_port" /\ result = "ok"
    /\ \E n \in Names :
          /\ IsNode(n) /\ ~isDomain(Node(n))
          /\ SnapshotNode(n).needs_ports = <<"q", "p">>
          /\ SnapshotNode(n).provides_ports # <<>>

\* C9: add_connection(c, cp, p, pp) raises InvalidComponent when c is no node,
\* InvalidPort when cp is no needs port of c, InvalidComponent when p is no
\* node, InvalidPort when pp is no provides port of p (each when the earlier
\* arguments are valid); with valid arguments and a consumer that is not
\* connected it returns and stores exactly one new connection, at the end.
C9_AddConnection ==
    \A c \in Names, cp \in Ports, p \in Names, pp \in Ports :
        LET r == add_connection(Mesh, c, cp, p, pp)
        IN  IF ~IsNode(c) THEN r.exc = "InvalidComponent"
            ELSE IF ~In(cp, Node(c).needs_ports) THEN r.exc = "InvalidPort"
            ELSE IF ~IsNode(p) THEN r.exc = "InvalidComponent"
            ELSE IF ~In(pp, Node(p).provides_ports) THEN r.exc = "InvalidPort"
            ELSE ~IsConsumer(<<label_for_needs(Node(c)), cp>>)
                 => /\ r.exc = "ok"
                    /\ Extends(r.m.connections, connections,
                               [consumer |-> <<label_for_needs(Node(c)), cp>>,
                                producer |-> <<label_for_provides(Node(p)), pp>>,
                                cls |-> "ConnectionNode", highlighted |-> FALSE])

\* C9 witness: add_connection has just stored a plain connection, and in the
\* same state other arguments are refused with InvalidComponent and InvalidPort.
C9_Witness ==
    /\ call = "add_connection" /\ result = "ok"
    /\ connections[Len(connections)].cls = "ConnectionNode"
    /\ \E c \in Names, cp \in Ports, p \in Names, pp \in Ports :
          IsNode(c) /\ add_connection(Mesh, c, cp, p, pp).exc = "InvalidComponent"
    /\ \E c \in Names, cp \in Ports, p \in Names, pp \in Ports :
          add_connection(Mesh, c, cp, p, pp).exc = "InvalidPort"

\* C10: add_connection_to_resource(c, cp, r) raises InvalidComponent when c is
\* no node, InvalidPort when cp is no needs port of c, InvalidResource when r
\* is no resource (each when the earlier arguments are valid); with valid
\* arguments and a consumer that is not connected it returns and stores
\* exactly one new resource edge, from the anchor of (c, cp) to r.
C10_AddConnectionToResource ==
    \A c \in Names, cp \in Ports, x \in ResourceNames :
        LET r == add_connection_to_resource(Mesh, c, cp, x)
        IN  IF ~IsNode(c) THEN r.exc = "InvalidComponent"
            ELSE IF ~In(cp, Node(c).needs_ports) THEN r.exc = "InvalidPort"
            ELSE IF ~In(x, resources) THEN r.exc = "InvalidResource"
            ELSE ~IsConsumer(<<label_for_needs(Node(c)), cp>>)
                 => /\ r.exc = "ok"
                    /\ Extends(r.m.connections, connections,
                               [consumer |-> <<label_for_needs(Node(c)), cp>>,
                                producer |-> <<x>>,
                                cls |-> "ResourceConnectionNode", highlighted |-> FALSE])

\* C10 witness: add_connection_to_resource has just stored a resource edge
\* whose snapshot entry names the resource, and a call for a valid needs port
\* of another node is refused.
C10_Witness ==
    /\ call = "add_connection_to_resource" /\ result = "ok"
    /\ LET d == as_dict(Mesh).connections
       IN  d[Len(d)].resource \in ResourceNames
    /\ \E c \in Names, cp \in Ports, x \in ResourceNames :
          add_connection_to_resource(Mesh, c, cp, x).exc = "InvalidPort"

\* the number of entries of a snapshot's connection list whose producer is the
\* given port of a node, and whose producer is the given resource
PortFanIn(entries, node, port) ==
    Cardinality({i \in 1..Len(entries) :
        /\ "producer_component" \in DOMAIN entries[i]
        /\ entries[i].producer_component = node
        /\ entries[i].producer_port = port})

ResourceFanIn(entries, resource) ==
    Cardinality({i \in 1..Len(entries) :
        "resource" \in DOMAIN entries[i] /\ entries[i].resource = resource})

\* C11: a provides port, and a resource, is the producer of any number of
\* connections: add_connection and add_connection_to_resource from a needs
\* port that is not connected return normally however many connections the
\* producer has already, and the snapshot then lists one more connection to
\* that producer, all the earlier ones included.
C11_ProducerTakesAnyNumber ==
    /\ \A c \in Names, cp \in Ports, p \in Names, pp \in Ports :
          (/\ IsNode(c) /\ In(cp, Node(c).needs_ports)
           /\ IsNode(p) /\ In(pp, Node(p).provides_ports)
           /\ ~IsConsumer(<<label_for_needs(Node(c)), cp>>))
          => LET r == add_connection(Mesh, c, cp, p, pp)
                 lbl == label_for_provides(Node(p))
             IN  /\ r.exc = "ok"
                 /\ PortFanIn(as_dict(r.m).connections, lbl, pp)
                      = PortFanIn(as_dict(Mesh).connections, lbl, pp) + 1
                 /\ \A i \in 1..Len(connections) :
                       as_dict(r.m).connections[i] = as_dict(Mesh).connections[i]
    /\ \A c \in Names, cp \in Ports, x \in ResourceNames :
          (/\ IsNode(c) /\ In(cp, Node(c).needs_ports)
           /\ In(x, resources)
           /\ ~IsConsumer(<<label_for_needs(Node(c)), cp>>))
          => LET r == add_connection_to_resource(Mesh, c, cp, x)
             IN  /\ r.exc = "ok"
                 /\ ResourceFanIn(as_dict(r.m).connections, x)
                      = ResourceFanIn(as_dict(Mesh).connections, x) + 1
                 /\ \A i \in 1..Len(connections) :
                       as_dict(r.m).connections[i] = as_dict(Mesh).connections[i]

\* C11 witness: add_connection has just returned normally and the snapshot
\* lists two connections to the same provides port.
C11_Witness ==
    /\ call = "add_connection" /\ result = "ok"
    /\ \E p \in Names, pp \in Ports :
          PortFanIn(as_dict(Mesh).connections, p, pp) = 2

\* the snapshot's connection list, the highlight marks left out
SnapshotConnections ==
    LET entries == as_dict(Mesh).connections
    IN  [i \in 1..Len(entries) |->
            [k \in DOMAIN entries[i] \ {"highlighted"} |-> entries[i][k]]]

\* the call that creates a connection with this snapshot entry
CreatedBy(entry) ==
    IF "resource" \in DOMAIN entry THEN "add_connection_to_resource"
    ELSE IF "domain_export" \notin DOMAIN entry THEN "add_connection"
    ELSE IF entry.domain_export = "needs" THEN "expose_component_needs_port"
    ELSE "expose_component_provides_port"

CreatingCalls ==
    {"add_connection", "add_connection_to_resource",
     "expose_component_needs_port", "expose_component_provides_port"}

\* C12: the snapshot's connection list holds every created connection once,
\* in the order of creation, for the four kinds of connection alike: a call
\* that creates a connection appends one entry of its kind, different from
\* all the entries before it, and every other call that changes the Mesh
\* leaves the list as it was (highlight marks apart).
C12_ConnectionsInCreationOrder ==
    [][ Mesh' # Mesh
        => \A old \in {SnapshotConnections}, new \in {SnapshotConnections'} :
               IF call' \in CreatingCalls /\ result' = "ok"
               THEN /\ Len(new) = Len(old) + 1
                    /\ SubSeq(new, 1, Len(old)) = old
                    /\ CreatedBy(new[Len(new)]) = call'
                    /\ NoRepeats(new)
               ELSE new = old ]_vars

\* C12 witness: the snapshot lists a resource edge created first and a plain
\* connection created by the last call, in that order.
C12_Witness ==
    /\ call = "add_connection" /\ result = "ok"
    /\ Len(SnapshotConnections) = 2
    /\ CreatedBy(SnapshotConnections[1]) = "add_connection_to_resource"
    /\ CreatedBy(SnapshotConnections[2]) = "add_connection"

Snapshot == as_dict(Mesh)

NamesOf(entries) == [i \in 1..Len(entries) |-> entries[i].name]

C14_AddComponentToDomain ==
    \A c \in Names, d \in Names :
        LET r == add_component_to_domain(Mesh, c, d)
        IN  IF ~IsNode(c) \/ isDomain(Node(c))
            THEN r = Raise(Mesh, "InvalidComponent")
            ELSE IF Node(c).parent # <<>>
            THEN r = Raise(Mesh, "DuplicateEntry")
            ELSE IF ~IsNode(d)
            THEN r = Raise(Mesh, "InvalidDomain")
            ELSE /\ r.exc = "ok"
                 /\ Get(r.m, c).parent = <<d>>
                 /\ In(c, Get(r.m, d).children)

\* add_component_to_domain(c, d) has succeeded: c is a child of the Domain d
\* and d is c's parent
Placed(c, d) ==
    /\ IsNode(c) /\ IsNode(d) /\ isDomain(Node(d))
    /\ Node(c).parent = <<d>>
    /\ In(c, Node(d).children)

\* C15 (as claimed): once add_component_to_domain(c, d) has succeeded, for any
\* domain name d the Mesh accepts, c's parent is d in every later state and
\* every later add_component_to_domain(c, d2) raises DuplicateEntry.
C15_ParentIsPermanent ==
    [][ \A c \in Names, d \in vocab.domains :
            Placed(c, d)
            => /\ Node(c)'.parent = <<d>>
               /\ \A d2 \in Names :
                     add_component_to_domain(Mesh, c, d2).exc = "DuplicateEntry" ]_vars

\* C16 (as claimed): in every reachable state no Domain is in the children of
\* a Domain, and every Component is in the children of at most one Domain.
C16_ChildrenAreComponentsOfOneDomain ==
    /\ \A d \in Names, c \in Names :
          (IsNode(d) /\ isDomain(Node(d)) /\ In(c, Node(d).children))
          => IsNode(c) /\ ~isDomain(Node(c))
    /\ \A c \in Names, d1 \in Names, d2 \in Names :
          (/\ IsNode(d1) /\ isDomain(Node(d1)) /\ In(c, Node(d1).children)
           /\ IsNode(d2) /\ isDomain(Node(d2)) /\ In(c, Node(d2).children))
          => d1 = d2

\* C17: several children of a Domain may expose the same needs port: for a
\* child c of the Domain d that declares needs port x and whose (c, x) is not
\* connected, expose_component_needs_port(c, x) returns normally; d's needs
\* list then holds x once, where it was if d declared x already (by an earlier
\* exposure or by add_needs_port) and at the end otherwise; and the snapshot
\* has one more connection, the export from (c, x) to d's needs port x.
C17_SharedNeedsExport ==
    \A c \in Names, d \in Names, x \in Ports :
        (/\ Placed(c, d)
         /\ In(x, Node(c).needs_ports)
         /\ ~IsConsumer(<<c, x>>))
        => LET r == expose_component_needs_port(Mesh, c, x)
               before == Node(d).needs_ports
               after == Get(r.m, d).needs_ports
           IN  /\ r.exc = "ok"
               /\ after = IF In(x, before) THEN before ELSE Append(before, x)
               /\ Cardinality({i \in 1..Len(after) : after[i] = x}) = 1
               /\ as_dict(r.m).connections
                    = Append(as_dict(Mesh).connections,
                             [consumer_component |-> c, consumer_port |-> x,
                              producer_component |-> label_for_needs(Node(d)),
                              producer_port |-> x, domain_export |-> "needs"])

\* C17 witness: two children of one Domain have exposed the same needs port;
\* the Domain declares it once and the snapshot has the two exports.
C17_Witness ==
    /\ call = "expose_component_needs_port" /\ result = "ok"
    /\ \E d \in Names, x \in Ports :
          /\ IsNode(d) /\ isDomain(Node(d))
          /\ Node(d).needs_ports = <<x>>
          /\ PortFanIn(as_dict(Mesh).connections, label_for_needs(Node(d)), x) = 2
          /\ \A i \in 1..2 : as_dict(Mesh).connections[i].domain_export = "needs"

\* C18: expose_component_provides_port(c, x), for a child c of the Domain d
\* that declares provides port x, raises DuplicateEntry and leaves the Mesh as
\* it was whenever d declares provides port x already, whether through an
\* exposure by c, by another child, or through add_provides_port on d; and
\* every provides port of a Domain is the consumer of at most one
\* domain-provides export.
C18_ProvidesExportIsExclusive ==
    /\ \A c \in Names, d \in Names, x \in Ports :
          (/\ Placed(c, d)
           /\ In(x, Node(c).provides_ports)
           /\ In(x, Node(d).provides_ports))
          => expose_component_provides_port(Mesh, c, x) = Raise(Mesh, "DuplicateEntry")
    /\ \A d \in Names, x \in Ports :
          (IsNode(d) /\ isDomain(Node(d)))
          => Cardinality({i \in 1..Len(connections) :
                 /\ connections[i].cls = "DomainProvidesConnectionNode"
                 /\ connections[i].consumer = <<label_for_provides(Node(d)), x>>}) <= 1

\* C18 witness: a child has exposed provides port x of its Domain, and the
\* exposure of x is refused for that child and for a second child.
C18_Witness ==
    \E c1 \in Names, c2 \in Names, d \in Names, x \in Ports :
        /\ c1 # c2 /\ Placed(c1, d) /\ Placed(c2, d)
        /\ \E i \in 1..Len(connections) :
              /\ connections[i].cls = "DomainProvidesConnectionNode"
              /\ connections[i].producer = <<c1, x>>
        /\ expose_component_provides_port(Mesh, c1, x).exc = "DuplicateEntry"
        /\ expose_component_provides_port(Mesh, c2, x).exc = "DuplicateEntry"

\* c has a parent that is a Domain of the Mesh
HasParentDomain(c) ==
    /\ ~isDomain(Node(c))
    /\ Node(c).parent # <<>>
    /\ IsNode(Node(c).parent[1])
    /\ isDomain(Node(Node(c).parent[1]))

\* C19 (as claimed): expose_component_needs_port(c, x) and
\* expose_component_provides_port(c, x) raise InvalidComponent when c is no
\* node, InvalidPort when c does not declare x in the role, InvalidDomain when
\* c has no parent domain, and none of these failures changes the Mesh.
C19_ExposeErrors ==
    \A c \in Names, x \in Ports :
        /\ LET r == expose_component_needs_port(Mesh, c, x)
           IN  IF ~IsNode(c) THEN r = Raise(Mesh, "InvalidComponent")
               ELSE IF ~In(x, Node(c).needs_ports) THEN r = Raise(Mesh, "InvalidPort")
               ELSE ~HasParentDomain(c) => r = Raise(Mesh, "InvalidDomain")
        /\ LET r == expose_component_provides_port(Mesh, c, x)
           IN  IF ~IsNode(c) THEN r = Raise(Mesh, "InvalidComponent")
               ELSE IF ~In(x, Node(c).provides_ports) THEN r = Raise(Mesh, "InvalidPort")
               ELSE ~HasParentDomain(c) => r = Raise(Mesh, "InvalidDomain")

\* the index of the stored connection with this consumer, producer and class,
\* 0 if there is none
Stored(consumer, producer, cls) ==
    IF \E i \in 1..Len(connections) :
           /\ connections[i].consumer = consumer
           /\ connections[i].producer = producer
           /\ connections[i].cls = cls
    THEN CHOOSE i \in 1..Len(connections) :
           /\ connections[i].consumer = consumer
           /\ connections[i].producer = producer
           /\ connections[i].cls = cls
    ELSE 0

\* C20 (as claimed): for the connection that a successful
\* add_connection(c, cp, p, pp) created, highlight_connection(c, cp, p, pp)
\* returns normally and marks that connection highlighted, and the same for
\* add_connection_to_resource(c, cp, r) and
\* highlight_connection_to_resource(c, cp, r), whether c and p are Components
\* or Domains; so InvalidConnection is raised only when no connection was
\* created with the arguments.
C20_CreatedConnectionCanBeHighlighted ==
    /\ \A c \in Names, cp \in Ports, p \in Names, pp \in Ports :
          (/\ IsNode(c) /\ In(cp, Node(c).needs_ports)
           /\ IsNode(p) /\ In(pp, Node(p).provides_ports)
           /\ Stored(<<label_for_needs(Node(c)), cp>>,
                     <<label_for_provides(Node(p)), pp>>, "ConnectionNode") # 0)
          => LET r == highlight_connection(Mesh, c, cp, p, pp)
                 i == Stored(<<label_for_needs(Node(c)), cp>>,
                             <<label_for_provides(Node(p)), pp>>, "ConnectionNode")
             IN  /\ r.exc = "ok"
                 /\ r.m.connections = [connections EXCEPT ![i].highlighted = TRUE]
    /\ \A c \in Names, cp \in Ports, x \in ResourceNames :
          (/\ IsNode(c) /\ In(cp, Node(c).needs_ports)
           /\ In(x, resources)
           /\ Stored(<<label_for_needs(Node(c)), cp>>, <<x>>,
                     "ResourceConnectionNode") # 0)
          => LET r == highlight_connection_to_resource(Mesh, c, cp, x)
                 i == Stored(<<label_for_needs(Node(c)), cp>>, <<x>>,
                             "ResourceConnectionNode")
             IN  /\ r.exc = "ok"
                 /\ r.m.connections = [connections EXCEPT ![i].highlighted = TRUE]

\* a connection is stored under the key made of the two given values
Keyed(consumer, producer) ==
    \E i \in 1..Len(connections) :
        connections[i].consumer = consumer /\ connections[i].producer = producer

\* some highlight flag of the Mesh is on
SomeHighlight ==
    \/ \E i \in 1..Len(components) : components[i].highlighted
    \/ \E i \in 1..Len(connections) : connections[i].highlighted
    \/ highlighted_resource # {}

\* C21: highlight_component with a name that is no node raises
\* InvalidComponent, highlight_resource with a name that is no resource raises
\* InvalidResource, highlight_connection and highlight_connection_to_resource
\* with a key under which no connection is stored raise InvalidConnection; in
\* each case the Mesh, its highlight flags included, is left as it was.
C21_HighlightOfUnknownIsRefused ==
    /\ \A n \in Names :
          ~IsNode(n) => highlight_component(Mesh, n) = Raise(Mesh, "InvalidComponent")
    /\ \A x \in ResourceNames :
          ~In(x, resources) => highlight_resource(Mesh, x) = Raise(Mesh, "InvalidResource")
    /\ \A c \in Names, cp \in Ports, p \in Names, pp \in Ports :
          ~Keyed(<<c, cp>>, <<p, pp>>)
          => highlight_connection(Mesh, c, cp, p, pp) = Raise(Mesh, "InvalidConnection")
    /\ \A c \in Names, cp \in Ports, x \in ResourceNames :
          ~Keyed(<<c, cp>>, <<x>>)
          => highlight_connection_to_resource(Mesh, c, cp, x)
               = Raise(Mesh, "InvalidConnection")

\* C21 witness: a highlight flag is on, and in that state each of the four
\* calls is refused for some unknown target.
C21_Witness ==
    /\ SomeHighlight
    /\ Len(connections) > 0
    /\ \E n \in Names : highlight_component(Mesh, n).exc = "InvalidComponent"
    /\ \E x \in ResourceNames : highlight_resource(Mesh, x).exc = "InvalidResource"
    /\ \E c \in Names, cp \in Ports, p \in Names, pp \in Ports :
          highlight_connection(Mesh, c, cp, p, pp).exc = "InvalidConnection"
    /\ \E c \in Names, cp \in Ports, x \in ResourceNames :
          highlight_connection_to_resource(Mesh, c, cp, x).exc = "InvalidConnection"

\* the outcome r of a highlight call, made again on the Mesh it left, returns
\* normally and leaves that Mesh and its snapshot as they are
Settled(r, again) ==
    r.exc = "ok" => /\ again = Return(r.m)
                    /\ as_dict(again.m) = as_dict(r.m)

HighlightIsIdempotent ==
    /\ \A n \in Names :
          LET r == highlight_component(Mesh, n)
          IN  Settled(r, highlight_component(r.m, n))
    /\ \A x \in ResourceNames :
          LET r == highlight_resource(Mesh, x)
          IN  Settled(r, highlight_resource(r.m, x))
    /\ \A c \in Names, cp \in Ports, p \in Names, pp \in Ports :
          LET r == highlight_connection(Mesh, c, cp, p, pp)
          IN  Settled(r, highlight_connection(r.m, c, cp, p, pp))
    /\ \A c \in Names, cp \in Ports, x \in ResourceNames :
          LET r == highlight_connection_to_resource(Mesh, c, cp, x)
          IN  Settled(r, highlight_connection_to_resource(r.m, c, cp, x))

\* every highlight flag that is on stays on in the step
HighlightStaysOn ==
    /\ \A i \in 1..Len(components) :
          components[i].highlighted
          => /\ i <= Len(components')
             /\ components'[i].name = components[i].name
             /\ components'[i].highlighted
    /\ \A i \in 1..Len(connections) :
          connections[i].highlighted
          => /\ i <= Len(connections')
             /\ connections'[i].consumer = connections[i].consumer
             /\ connections'[i].producer = connections[i].producer
             /\ connections'[i].highlighted
    /\ highlighted_resource \subseteq highlighted_resource'

\* C22: highlighting is idempotent and additive: a highlight call that
\* returned normally, made a second time, leaves the Mesh and the snapshot as
\* the first call left them, and no step of any operation turns off a
\* highlight flag that is on.
C22_HighlightIdempotentAndAdditive ==
    []HighlightIsIdempotent /\ [][HighlightStaysOn]_vars

\* C22 witness: a highlight flag is on after a later call of another kind
\* changed the Mesh, and the highlight call that set it returns normally again.
C22_Witness ==
    /\ SomeHighlight
    /\ call \in {"add_needs_port", "add_connection", "add_resource"}
    /\ \/ \E n \in Names : IsNode(n) /\ Node(n).highlighted
                            /\ highlight_component(Mesh, n) = Return(Mesh)
       \/ \E x \in highlighted_resource : highlight_resource(Mesh, x) = Return(Mesh)

IsPrefix(xs, ys) == Len(xs) <= Len(ys) /\ SubSeq(ys, 1, Len(xs)) = xs

\* C23 (as claimed): entities only accumulate: over every step each node,
\* resource, port and connection is still there, each port list, the resource
\* list and the connection list is a prefix of the list after the step, and
\* nothing else changes but highlight flags turning on and the parent of a
\* Component going from unset to set (with the children of its Domain).
C23_EntitiesOnlyAccumulate ==
    [][ /\ Len(components) <= Len(components')
        /\ \A i \in 1..Len(components) :
              \A a \in {components[i]}, b \in {components'[i]} :
                  /\ b.name = a.name /\ b.kind = a.kind
                  /\ IsPrefix(a.needs_ports, b.needs_ports)
                  /\ IsPrefix(a.provides_ports, b.provides_ports)
                  /\ a.highlighted => b.highlighted
                  /\ a.parent # <<>> => b.parent = a.parent
                  /\ \A j \in 1..Len(a.children) : In(a.children[j], b.children)
        /\ IsPrefix(resources, resources')
        /\ highlighted_resource \subseteq highlighted_resource'
        /\ connected_consumers \subseteq connected_consumers'
        /\ Len(connections) <= Len(connections')
        /\ \A i \in 1..Len(connections) :
              \A a \in {connections[i]}, b \in {connections'[i]} :
                  /\ b.consumer = a.consumer /\ b.producer = a.producer
                  /\ b.cls = a.cls
                  /\ a.highlighted => b.highlighted ]_vars

\* C24: stored connections are unique by key (consumer anchor, producer anchor
\* or resource): a step never replaces a stored connection, and the number of
\* connections grows by one with every creating call that returns normally
\* and with nothing else, so it equals the number of such calls.
C24_ConnectionsUniqueByKey ==
    [][ Mesh' # Mesh
        => /\ \A i, j \in 1..Len(connections') :
                 (/\ connections'[i].consumer = connections'[j].consumer
                  /\ connections'[i].producer = connections'[j].producer) => i = j
           /\ \A i \in 1..Len(connections) :
                 Keyed(connections[i].consumer, connections[i].producer)'
           /\ Len(connections')
                = Len(connections)
                  + (IF call' \in CreatingCalls /\ result' = "ok" THEN 1 ELSE 0) ]_vars

\* C24 witness: two connections are stored, the second by an exposure that
\* has just returned normally, and a further creating call is refused.
C24_Witness ==
    /\ call = "expose_component_needs_port" /\ result = "ok"
    /\ Len(connections) = 2
    /\ connections[1].cls # connections[2].cls
    /\ \E d \in Names :
          /\ IsNode(d) /\ isDomain(Node(d))
          /\ connections[2].producer[1] = label_for_needs(Node(d))
    /\ \E c \in Names, x \in Ports :
          expose_component_needs_port(Mesh, c, x).exc = "InvalidConnection"

\* the endpoint names the claim gives for node n as consumer and as producer
ConsumerEndpoint(n) == IF Node(n).kind = "domain" THEN n \o "__needs" ELSE n

ProducerEndpoint(n) == IF Node(n).kind = "domain" THEN n \o "__provides" ELSE n

\* C25: the connection that add_connection(c, cp, p, pp) creates is stored and
\* shown in the snapshot with the consumer endpoint (c's needs label, cp) and
\* the producer endpoint (p's provides label, pp): the label of a plain
\* Component is its name, those of a Domain D are D__needs and D__provides;
\* the snapshot entry has these four fields and no other.
C25_ConnectionEndpoints ==
    \A c \in Names, cp \in Ports, p \in Names, pp \in Ports :
        LET r == add_connection(Mesh, c, cp, p, pp)
        IN  r.exc = "ok"
            => /\ r.m.connections[Len(r.m.connections)].consumer
                    = <<ConsumerEndpoint(c), cp>>
               /\ r.m.connections[Len(r.m.connections)].producer
                    = <<ProducerEndpoint(p), pp>>
               /\ as_dict(r.m).connections[Len(r.m.connections)]
                    = [consumer_component |-> ConsumerEndpoint(c),
                       consumer_port |-> cp,
                       producer_component |-> ProducerEndpoint(p),
                       producer_port |-> pp]

\* C25 witness: add_connection has just connected a Domain's needs port to a
\* Component's provides port; the snapshot shows the Domain's needs label.
C25_Witness ==
    /\ call = "add_connection" /\ result = "ok"
    /\ \E d \in Names, c \in Names, x \in Ports, y \in Ports :
          /\ IsNode(d) /\ isDomain(Node(d))
          /\ IsNode(c) /\ ~isDomain(Node(c))
          /\ as_dict(Mesh).connections[Len(connections)]
               = [consumer_component |-> d \o "__needs", consumer_port |-> x,
                  producer_component |-> c, producer_port |-> y]

\* C26 (as claimed): anchor labels never collide: in every reachable state the
\* needs label and the provides label of a Domain differ from each other and
\* from the labels of every other node of the Mesh.
C26_LabelsNeverCollide ==
    \A d \in Names :
        (IsNode(d) /\ isDomain(Node(d)))
        => /\ label_for_needs(Node(d)) # label_for_provides(Node(d))
           /\ \A n \in Names \ {d} :
                 IsNode(n)
                 => {label_for_needs(Node(d)), label_for_provides(Node(d))}
                    \cap {label_for_needs(Node(n)), label_for_provides(Node(n))} = {}

\* C27: the snapshot of a newly created Mesh, before any call has changed it,
\* has empty lists of components, domains, connections and resources and no
\* entry for highlighted resources.
C27_SnapshotOfNewMesh ==
    call = "Mesh"
    => as_dict(Mesh) = [components |-> <<>>, domains |-> <<>>,
                        connections |-> <<>>, resources |-> <<>>]

\* C27 witness: the Mesh is as its constructor made it, and its snapshot has
\* the four entries.
C27_Witness ==
    /\ call = "Mesh"
    /\ DOMAIN as_dict(Mesh) = {"components", "domains", "connections", "resources"}

\* the resources the snapshot shows as highlighted, none if it has no entry
SnapshotHighlighted ==
    IF "highlighted_resources" \in DOMAIN Snapshot
    THEN Snapshot.highlighted_resources
    ELSE {}

\* the entry, when the snapshot has it, is not empty and holds known resources
HighlightedEntryIsSound ==
    /\ "highlighted_resources" \in DOMAIN Snapshot => Snapshot.highlighted_resources # {}
    /\ \A x \in SnapshotHighlighted : In(x, resources)

\* a highlight_resource that returns normally adds its resource to the
\* entry, and no other step changes the entry
HighlightedEntryFollowsCalls ==
    Mesh' # Mesh
    => \A old \in {SnapshotHighlighted}, new \in {SnapshotHighlighted'} :
          IF call' = "highlight_resource" /\ result' = "ok"
          THEN \E x \in ResourceNames : x \notin old /\ new = old \cup {x}
          ELSE new = old

\* C28: the snapshot has a highlighted_resources entry if and only if a
\* highlight_resource call has returned normally, and the entry then holds
\* exactly the resources highlighted so far, each one a resource of the Mesh.
C28_HighlightedResourcesEntry ==
    []HighlightedEntryIsSound /\ [][HighlightedEntryFollowsCalls]_vars

\* C28 witness: highlight_resource has just returned normally and the snapshot
\* lists its resource as highlighted.
C28_Witness ==
    /\ call = "highlight_resource" /\ result = "ok"
    /\ "highlighted_resources" \in DOMAIN Snapshot
    /\ \E x \in ResourceNames : Snapshot.highlighted_resources = {x} /\ In(x, resources)

\* the API calls of the vocabulary, each as <<operation, arguments...>> with
\* every argument a sequence (a name n is <<n>>) and four arguments in all
Calls ==
    {<<"add_component", <<n>>, needs, provides, <<>>>> :
        n \in vocab.components,
        needs \in PortLists(Ports), provides \in PortLists(Ports)}
    \cup {<<"add_domain", <<n>>, <<>>, <<>>, <<>>>> : n \in vocab.domains}
    \cup {<<"add_resource", <<x>>, <<>>, <<>>, <<>>>> : x \in ResourceNames}
    \cup {<<op, <<n>>, <<x>>, <<>>, <<>>>> :
            op \in {"add_needs_port", "add_provides_port",
                    "expose_component_needs_port", "expose_component_provides_port"},
            n \in Names, x \in Ports}
    \cup {<<op, <<c>>, <<cp>>, <<p>>, <<pp>>>> :
            op \in {"add_connection", "highlight_connection"},
            c \in Names, cp \in Ports, p \in Names, pp \in Ports}
    \cup {<<op, <<c>>, <<cp>>, <<x>>, <<>>>> :
            op \in {"add_connection_to_resource", "highlight_connection_to_resource"},
            c \in Names, cp \in Ports, x \in ResourceNames}
    \cup {<<"add_component_to_domain", <<c>>, <<d>>, <<>>, <<>>>> :
            c \in Names, d \in vocab.domains}
    \cup {<<"highlight_component", <<n>>, <<>>, <<>>, <<>>>> : n \in Names}
    \cup {<<"highlight_resource", <<x>>, <<>>, <<>>, <<>>>> : x \in ResourceNames}

\* the outcome of the call k on the Mesh m
Apply(m, k) ==
    CASE k[1] = "add_component" -> add_component(m, k[2][1], k[3], k[4])
      [] k[1] = "add_domain" -> add_domain(m, k[2][1])
      [] k[1] = "add_resource" -> add_resource(m, k[2][1])
      [] k[1] = "add_needs_port" -> add_needs_port(m, k[2][1], k[3][1])
      [] k[1] = "add_provides_port" -> add_provides_port(m, k[2][1], k[3][1])
      [] k[1] = "add_connection" ->
            add_connection(m, k[2][1], k[3][1], k[4][1], k[5][1])
      [] k[1] = "add_connection_to_resource" ->
            add_connection_to_resource(m, k[2][1], k[3][1], k[4][1])
      [] k[1] = "add_component_to_domain" ->
            add_component_to_domain(m, k[2][1], k[3][1])
      [] k[1] = "expose_component_needs_port" ->
            expose_component_needs_port(m, k[2][1], k[3][1])
      [] k[1] = "expose_component_provides_port" ->
            expose_component_provides_port(m, k[2][1], k[3][1])
      [] k[1] = "highlight_component" -> highlight_component(m, k[2][1])
      [] k[1] = "highlight_connection" ->
            highlight_connection(m, k[2][1], k[3][1], k[4][1], k[5][1])
      [] k[1] = "highlight_connection_to_resource" ->
            highlight_connection_to_resource(m, k[2][1], k[3][1], k[4][1])
      [] k[1] = "highlight_resource" -> highlight_resource(m, k[2][1])

\* the ordered lists of the snapshot that the call k appends to when it
\* returns normally on the Mesh: the list of components, of domains, of
\* resources, of connections, or the ports of a node in a role
AppendsTo(k) ==
    CASE k[1] = "add_component" ->
            {<<"components", "">>, <<k[2][1], "needs">>, <<k[2][1], "provides">>}
      [] k[1] = "add_domain" ->
            {<<"domains", "">>, <<k[2][1], "needs">>, <<k[2][1], "provides">>}
      [] k[1] = "add_resource" -> {<<"resources", "">>}
      [] k[1] = "add_needs_port" -> {<<k[2][1], "needs">>}
      [] k[1] = "add_provides_port" -> {<<k[2][1], "provides">>}
      [] k[1] \in {"add_connection", "add_connection_to_resource"} ->
            {<<"connections", "">>}
      [] k[1] = "expose_component_needs_port" ->
            {<<"connections", "">>}
            \cup {<<d, "needs">> : d \in {e \in Names : Placed(k[2][1], e)}}
      [] k[1] = "expose_component_provides_port" ->
            {<<"connections", "">>}
            \cup {<<d, "provides">> : d \in {e \in Names : Placed(k[2][1], e)}}
      [] OTHER -> {}

\* C29 (as claimed): from any reachable Mesh two calls that return normally
\* in either order and do not append to the same ordered list commute: the
\* snapshot after the one and then the other is the snapshot after the other
\* and then the one.
C29_IndependentCallsCommute ==
    \A ok \in {{k \in Calls : Apply(Mesh, k).exc = "ok"}} :
    \A k1 \in ok, k2 \in ok :
        (/\ AppendsTo(k1) \cap AppendsTo(k2) = {}
         /\ Apply(Apply(Mesh, k1).m, k2).exc = "ok"
         /\ Apply(Apply(Mesh, k2).m, k1).exc = "ok")
        => as_dict(Apply(Apply(Mesh, k1).m, k2).m)
             = as_dict(Apply(Apply(Mesh, k2).m, k1).m)

\* C30: the anchor token of a needs port ('hash': "id" and six digits of the
\* digest) is never equal to the anchor token of a provides port ('hash_p':
\* "idp" and six digits of the digest), whatever the two port names are, the
\* same name included and whatever md5 makes of them; so the two anchors the
\* rendering wrote last are different too.
C30_AnchorTokensNeverCollide ==
    /\ \A x \in PortNames, y \in PortNames : hash(x) # hash_p(y)
    /\ (tokens.needs # <<>> /\ tokens.provides # <<>>) => tokens.needs # tokens.provides

\* both anchors were written for one and the same port name, whose digest
\* starts with a "d"
C30_Witness ==
    \E s \in PortNames :
        /\ tokens.needs = hash(s)
        /\ tokens.provides = hash_p(s)
        /\ tokens.md5[s][1] = "d"

\* C31 (as claimed): add_component(n, needs, provides) for an unused name n,
\* where needs or provides holds one port name twice, raises DuplicateEntry
\* and leaves no node called n, so that add_component(n) and add_domain(n)
\* succeed afterwards.
C31_DuplicatePortLeavesNoNode ==
    \A n \in vocab.components, needs \in PortLists(Ports), provides \in PortLists(Ports) :
        (/\ ~IsNode(n)
         /\ Len(needs) + Len(provides) <= MaxArgLen
         /\ ~NoRepeats(needs) \/ ~NoRepeats(provides))
        => LET r == add_component(Mesh, n, needs, provides)
           IN  /\ r.exc = "DuplicateEntry"
               /\ ~Has(r.m, n)
               /\ add_component(r.m, n, <<>>, <<>>).exc = "ok"
               /\ add_domain(r.m, n).exc = "ok"

\* C32 (as claimed): expose_component_needs_port(c, x), where c declares the
\* needs port x, has a parent Domain and (c, x) is the consumer of a stored
\* connection, raises InvalidConnection and leaves the needs ports of the
\* parent Domain as they were.
C32_ExposeOfConnectedPortIsRefused ==
    \A c \in Names, x \in Ports :
        (/\ IsNode(c) /\ HasParentDomain(c)
         /\ In(x, Node(c).needs_ports)
         /\ IsConsumer(<<c, x>>))
        => LET r == expose_component_needs_port(Mesh, c, x)
               d == Node(c).parent[1]
           IN  /\ r.exc = "InvalidConnection"
               /\ Get(r.m, d).needs_ports = Node(d).needs_ports

\* C33 (as claimed): add_component_to_domain(c, x), where c is a plain
\* Component without a parent and x names a plain Component (c itself
\* included), raises InvalidDomain and leaves the Mesh as it was, c's parent
\* unset.
C33_PlainComponentIsNoDomain ==
    \A c \in Names, x \in Names :
        (/\ IsNode(c) /\ ~isDomain(Node(c)) /\ Node(c).parent = <<>>
         /\ IsNode(x) /\ ~isDomain(Node(x)))
        => add_component_to_domain(Mesh, c, x) = Raise(Mesh, "InvalidDomain")

\* C34 (as claimed): in every reachable state the parent links and the
\* children sets agree: a node c has parent d if and only if d is a Domain of
\* the Mesh and c is in d's children.
C34_ParentAndChildrenAgree ==
    \A c \in Names, d \in Names :
        IsNode(c)
        => (Node(c).parent = <<d>>
            <=> (IsNode(d) /\ isDomain(Node(d)) /\ In(c, Node(d).children)))

\* the stored connection conn is the export of port x of the child c through
\* its parent Domain d, in the role needs or provides
IsExportOf(conn, c, d, x, role) ==
    /\ IsNode(c) /\ ~isDomain(Node(c))
    /\ IsNode(d) /\ isDomain(Node(d))
    /\ Node(c).parent = <<d>>
    /\ IF role = "needs"
       THEN /\ conn.consumer = <<c, x>>
            /\ conn.producer = <<d \o "__needs", x>>
            /\ In(x, Node(c).needs_ports) /\ In(x, Node(d).needs_ports)
       ELSE /\ conn.consumer = <<d \o "__provides", x>>
            /\ conn.producer = <<c, x>>
            /\ In(x, Node(c).provides_ports) /\ In(x, Node(d).provides_ports)

\* C35 (as claimed): in every reachable state each domain-needs-export
\* connection runs from (c, x) to (D__needs, x) and each
\* domain-provides-export connection from (D__provides, x) to (c, x), where D
\* is a Domain, c a plain Component whose parent is D, and both c and D declare
\* x in that role.
C35_ExportsJoinChildAndParent ==
    \A i \in 1..Len(connections) :
        /\ connections[i].cls = "DomainNeedsConnectionNode"
           => \E c \in Names, d \in Names, x \in Ports :
                  IsExportOf(connections[i], c, d, x, "needs")
        /\ connections[i].cls = "DomainProvidesConnectionNode"
           => \E c \in Names, d \in Names, x \in Ports :
                  IsExportOf(connections[i], c, d, x, "provides")

\* C36 (as claimed): expose_component_needs_port(x, p) and
\* expose_component_provides_port(x, p), where x is a Domain that declares p
\* in the role, raise InvalidDomain and leave the Mesh as it was.
C36_DomainHasNoParentDomain ==
    \A x \in Names, p \in Ports :
        (IsNode(x) /\ isDomain(Node(x)))
        => /\ In(p, Node(x).needs_ports)
              => expose_component_needs_port(Mesh, x, p) = Raise(Mesh, "InvalidDomain")
           /\ In(p, Node(x).provides_ports)
              => expose_component_provides_port(Mesh, x, p) = Raise(Mesh, "InvalidDomain")

\* C37: add_connection reports the first failure in a fixed order: consumer
\* node missing (InvalidComponent), consumer port no needs port (InvalidPort),
\* producer node missing (InvalidComponent), producer port no provides port
\* (InvalidPort), consumer connected already (InvalidConnection);
\* add_connection_to_resource likewise: consumer node, consumer port, resource
\* (InvalidResource), consumer connected already.  So a connected consumer with
\* an unknown producer or resource gets InvalidComponent or InvalidResource.
C37_FirstFailureInFixedOrder ==
    \A c \in Names, cp \in Ports :
        /\ \A p \in Names, pp \in Ports :
              add_connection(Mesh, c, cp, p, pp).exc
                = IF ~IsNode(c) THEN "InvalidComponent"
                  ELSE IF ~In(cp, Node(c).needs_ports) THEN "InvalidPort"
                  ELSE IF ~IsNode(p) THEN "InvalidComponent"
                  ELSE IF ~In(pp, Node(p).provides_ports) THEN "InvalidPort"
                  ELSE IF IsConsumer(<<ConsumerEndpoint(c), cp>>) THEN "InvalidConnection"
                  ELSE "ok"
        /\ \A r \in ResourceNames :
              add_connection_to_resource(Mesh, c, cp, r).exc
                = IF ~IsNode(c) THEN "InvalidComponent"
                  ELSE IF ~In(cp, Node(c).needs_ports) THEN "InvalidPort"
                  ELSE IF ~In(r, resources) THEN "InvalidResource"
                  ELSE IF IsConsumer(<<ConsumerEndpoint(c), cp>>) THEN "InvalidConnection"
                  ELSE "ok"

\* a needs port is connected, and a call that names it as the consumer
\* together with an unknown producer raises InvalidComponent, one that names
\* it together with an unknown resource raises InvalidResource
C37_Witness ==
    \E c \in Names, cp \in Ports :
        /\ IsNode(c) /\ In(cp, Node(c).needs_ports)
        /\ IsConsumer(<<ConsumerEndpoint(c), cp>>)
        /\ \E p \in Names, pp \in Ports :
              /\ ~IsNode(p)
              /\ add_connection(Mesh, c, cp, p, pp).exc = "InvalidComponent"
        /\ \E r \in ResourceNames :
              /\ ~In(r, resources)
              /\ add_connection_to_resource(Mesh, c, cp, r).exc = "InvalidResource"

\* C38: in every reachable state the consumer label of every plain
\* connection denotes a node of the Mesh that declares the consumer port as a
\* needs port, its producer label denotes a node that declares the producer
\* port as a provides port; the consumer of every resource edge is such a
\* needs port and its target is in the resource list.
C38_ConnectionsJoinDeclaredPorts ==
    \A i \in 1..Len(connections) :
        LET conn == connections[i]
            NeedsPortOfNode ==
                \E n \in Names :
                    /\ IsNode(n) /\ ConsumerEndpoint(n) = conn.consumer[1]
                    /\ In(conn.consumer[2], Node(n).needs_ports)
        IN  /\ conn.cls = "ConnectionNode"
               => /\ NeedsPortOfNode
                  /\ \E n \in Names :
                        /\ IsNode(n) /\ ProducerEndpoint(n) = conn.producer[1]
                        /\ In(conn.producer[2], Node(n).provides_ports)
            /\ conn.cls = "ResourceConnectionNode"
               => /\ NeedsPortOfNode
                  /\ In(conn.producer[1], resources)

\* a plain connection and a resource edge are stored
C38_Witness ==
    /\ \E i \in 1..Len(connections) : connections[i].cls = "ConnectionNode"
    /\ \E i \in 1..Len(connections) : connections[i].cls = "ResourceConnectionNode"

\* C39: highlight_component(d) on the name of a Domain returns normally and
\* the snapshot after the call is the snapshot before it: the entry of a
\* Domain has no highlighted field.
C39_HighlightOfDomainIsNotShown ==
    \A d \in Names :
        (IsNode(d) /\ isDomain(Node(d)))
        => LET r == highlight_component(Mesh, d)
           IN  /\ r.exc = "ok"
               /\ as_dict(r.m) = Snapshot

\* the last call that changed the Mesh was a highlight_component, and the
\* node that is highlighted is a Domain with a port and a child
C39_Witness ==
    /\ call = "highlight_component"
    /\ \E d \in Names :
          /\ IsNode(d) /\ isDomain(Node(d)) /\ Node(d).highlighted
          /\ Node(d).children # <<>>
          /\ Node(d).needs_ports # <<>>

\* a dict held from an earlier as_dict() call reads as it was returned
HeldSnapshotKeepsItsValue ==
    snapshot.taken => AsRead(snapshot, Mesh) = snapshot.dict

\* an as_dict() call leaves the Mesh as it is, and returns a dict equal to
\* the one held when the Mesh was not changed since that was taken
AsDictIsAPureQuery ==
    AsDict
    => /\ Mesh' = Mesh
       /\ (snapshot.taken /\ ~snapshot.stale) => snapshot'.dict = AsRead(snapshot, Mesh)

====
